---- MODULE Spec2Model ----
(***************************************************************************)
(* Model of handlers/dotfile_handler.py (class DotfileHandler).            *)
(*                                                                         *)
(* A python str is a sequence of one-character strings; the literal words  *)
(* of the f-strings (dotfiles, global, local, custom), inside which no      *)
(* operation of the code looks and which no declared path of the model      *)
(* holds, are one symbol each.  A pathlib.Path                              *)
(* is the record [root, parts] that PurePosixPath keeps after parsing its  *)
(* argument: root is "", "/" or "//" and parts are the components left     *)
(* once empty and "." components are dropped.  str(), startswith(),        *)
(* replace(), expanduser(), absolute() and relative_to() are computed on   *)
(* these as CPython computes them.                                         *)
(*                                                                         *)
(* The state machine is a caller that takes declared paths one by one,     *)
(* constructs a DotfileHandler for each and calls update / bootstrap on    *)
(* it.  An exception that leaves __init__, update or bootstrap is kept in  *)
(* exc and stops the caller.                                               *)
(***************************************************************************)
EXTENDS Naturals, Sequences, FiniteSets

\* Longest declared path string the caller hands to the constructor.
MaxLen == 5
\* Largest number of declared paths of one batch.
MaxBatch == 2

\* The characters declared paths are made of.
Alphabet == {"/", "~", ".", "a"}

DeclaredPaths == UNION {[1..k -> Alphabet] : k \in 0..MaxLen}

\* The environment: $HOME, the home of the one other user known to the
\* password database, and the working directory.
HomeDir == <<"/", "h">>
OtherHome == <<"/", "o">>
Cwd == <<"/", "w">>

Sep == "/"

------------------------------------------------------------------------------
(* python str *)

startswith(s, p) == Len(s) >= Len(p) /\ SubSeq(s, 1, Len(p)) = p

RECURSIVE replace(_, _, _)
\* s.replace(old, new): every non-overlapping occurrence, left to right.
replace(s, old, new) ==
    IF s = <<>> THEN <<>>
    ELSE IF startswith(s, old)
         THEN new \o replace(SubSeq(s, Len(old) + 1, Len(s)), old, new)
         ELSE <<Head(s)>> \o replace(Tail(s), old, new)

RECURSIVE lstrip(_)
\* s.lstrip("/")
lstrip(s) == IF s # <<>> /\ Head(s) = Sep THEN lstrip(Tail(s)) ELSE s

RECURSIVE split(_)
\* s.split("/"): the pieces between separators, empty pieces included.
split(s) ==
    IF s = <<>> THEN << <<>> >>
    ELSE IF Head(s) = Sep THEN << <<>> >> \o split(Tail(s))
         ELSE LET r == split(Tail(s))
              IN  << <<Head(s)>> \o Head(r) >> \o Tail(r)

RECURSIVE join(_)
\* "/".join(parts)
join(parts) ==
    IF parts = <<>> THEN <<>>
    ELSE IF Len(parts) = 1 THEN Head(parts)
         ELSE Head(parts) \o <<Sep>> \o join(Tail(parts))

------------------------------------------------------------------------------
(* pathlib.PurePosixPath *)

\* splitroot: exactly two leading slashes are kept, any other number is one.
splitroot(s) ==
    LET n == Len(s) - Len(lstrip(s))
    IN  IF n = 0 THEN <<>> ELSE IF n = 2 THEN <<Sep, Sep>> ELSE <<Sep>>

\* Path(s): parse one string argument.
Path(s) ==
    [root  |-> splitroot(s),
     parts |-> SelectSeq(split(lstrip(s)), LAMBDA x : x # <<>> /\ x # <<".">>)]

\* str(p)
str(p) ==
    LET t == p.root \o join(p.parts)
    IN  IF t = <<>> THEN <<".">> ELSE t

\* The result of a call that may raise: exc is "none" and val the value, or
\* exc names the exception.
Ok(v) == [exc |-> "none", val |-> v]
NoPath == [root |-> <<>>, parts |-> <<>>]
Raise(e) == [exc |-> e, val |-> NoPath]

\* os.path.expanduser of a first component "~" or "~name"; known says
\* whether the password database has the user.
userhome(part, known) ==
    IF part = <<"~">> THEN HomeDir
    ELSE IF known THEN OtherHome ELSE part

\* Path.expanduser()
expanduser(p, known) ==
    IF p.root = <<>> /\ p.parts # <<>> /\ startswith(Head(p.parts), <<"~">>)
    THEN LET homedir == userhome(Head(p.parts), known)
         IN  IF startswith(homedir, <<"~">>) THEN Raise("RuntimeError")
             ELSE Ok(Path(join(<<homedir>> \o Tail(p.parts))))
    ELSE Ok(p)

\* Path.absolute()
absolute(p) ==
    IF p.root # <<>> THEN p ELSE Path(join(<<Cwd>> \o p.parts))

\* p.relative_to("~")
relative_to_home(p) ==
    IF p.root = <<>> /\ p.parts # <<>> /\ Head(p.parts) = <<"~">>
    THEN Ok([root |-> <<>>, parts |-> Tail(p.parts)])
    ELSE Raise("ValueError")

------------------------------------------------------------------------------
(* class DotfileHandler *)

\* The literals of the f-strings of _get_local_dest and _get_local_src.
local_base == <<"dotfiles">>
SlashGlobal == <<"/", "global", "/">>
SlashLocal == <<"/", "local", "/">>
SlashCustom == <<"/", "custom", "/">>

NoEntry ==
    [path |-> NoPath, local_base |-> <<>>, absolute |-> NoPath,
     relative |-> NoPath, category |-> "none"]

\* _get_absolute without the home expansion.
_get_absolute_unexpanded(path, known) == Ok(absolute(path))

\* path.expanduser().absolute()
_get_absolute(path, known) ==
    LET e == expanduser(path, known)
    IN  IF e.exc = "none" THEN Ok(absolute(e.val)) ELSE e

\* path.relative_to("~")
_get_relative(path) == relative_to_home(path)

\* fs is what the file system says of path: (path.is_dir(), path.is_file()).
\* The result carries the path that was inspected.
_get_path_type(path, fs) ==
    [of |-> path,
     type |-> IF fs[1] THEN "dir" ELSE IF fs[2] THEN "file" ELSE "unknown"]

_get_path_category(path) ==
    IF startswith(str(path), <<"/">>) THEN "global"
    ELSE IF startswith(str(path), <<"~">>) THEN "local"
    ELSE "custom"

_get_local_dest(self, path) ==
    IF self.category = "global"
    THEN Path(self.local_base \o SlashGlobal \o str(path))
    ELSE IF self.category = "local"
         THEN Path(self.local_base \o SlashLocal \o str(self.relative))
         ELSE Path(self.local_base \o SlashCustom \o str(self.relative))

_get_local_src(self, path) ==
    LET path_stripped ==
            IF startswith(str(path), <<"~">>)
            THEN replace(str(path), <<"~", "/">>, <<>>)
            ELSE <<>>
    IN  IF self.category = "global"
        THEN Path(self.local_base \o SlashGlobal \o path_stripped)
        ELSE IF self.category = "local"
             THEN Path(self.local_base \o SlashLocal \o path_stripped)
             ELSE Path(self.local_base \o SlashCustom \o path_stripped)

\* DotfileHandler(path): the fields in the order __init__ assigns them; the
\* first call that raises ends the construction.  calls lists the methods
\* the constructor has called by then.
__init__(path, known) ==
    LET p == Path(path)
        a == _get_absolute(p, known)
        r == _get_relative(p)
    IN  IF a.exc # "none"
        THEN [exc |-> a.exc, val |-> NoEntry, calls |-> {"_get_absolute"}]
        ELSE IF r.exc # "none"
        THEN [exc |-> r.exc, val |-> NoEntry,
              calls |-> {"_get_absolute", "_get_relative"}]
        ELSE [exc |-> "none",
              val |-> [path |-> p, local_base |-> local_base,
                       absolute |-> a.val, relative |-> r.val,
                       category |-> _get_path_category(p)],
              calls |-> {"_get_absolute", "_get_relative",
                         "_get_path_category"}]

------------------------------------------------------------------------------
(* handlers.factory: DotfileHandlerFactory and the handlers it returns *)

get_handler(path_type) ==
    IF path_type = "dir" THEN "DirHandler"
    ELSE IF path_type = "file" THEN "FileHandler"
    ELSE "UnknownHandler"

\* The exception a handler's copy ends with ("none": it returned); ioerr
\* says whether the copy of an existing file or directory failed.
handler_copy(handler, ioerr) ==
    IF handler = "UnknownHandler" THEN "UnresolvedPathTypeError"
    ELSE IF ioerr THEN "OSError" ELSE "none"

------------------------------------------------------------------------------
(* the caller and the state *)

VARIABLES
    pc,        \* where the caller is: "idle", "ready", "called", "aborted"
    decl,      \* the declared path string of the entry being processed
    self,      \* the DotfileHandler object (NoEntry: none)
    built,     \* the object as __init__ left it
    initCalls, \* the methods the last __init__ called
    call,      \* the last update / bootstrap: the handler call it made and
               \* what became of it (NoCall: none)
    processed, \* the number of entries the caller is done with
    exc        \* the exception that left __init__, update or bootstrap

vars == <<pc, decl, self, built, initCalls, call, processed, exc>>

NoCall ==
    [op |-> "none", src |-> NoPath, dest |-> NoPath, inspected |-> NoPath,
     path_type |-> "none",
     handler |-> "none", argBackup |-> FALSE, argOverwrite |-> FALSE,
     backup |-> FALSE, overwrite |-> FALSE, raised |-> "none",
     printed |-> <<>>]

\* What the file system says of one path: (is_dir, is_file).
FsAnswers == {<<TRUE, FALSE>>, <<FALSE, TRUE>>, <<FALSE, FALSE>>}

Init ==
    /\ pc = "idle"
    /\ decl = <<>>
    /\ self = NoEntry
    /\ built = NoEntry
    /\ initCalls = {}
    /\ call = NoCall
    /\ processed = 0
    /\ exc = "none"

\* entry = DotfileHandler(d)
Construct(d, known) ==
    /\ pc = "idle"
    /\ processed < MaxBatch
    /\ LET r == __init__(d, known)
       IN  /\ decl' = d
           /\ self' = r.val
           /\ built' = r.val
           /\ initCalls' = r.calls
           /\ exc' = r.exc
           /\ pc' = IF r.exc = "none" THEN "ready" ELSE "aborted"
    /\ UNCHANGED <<call, processed>>

\* update without its try / except: the handler's exception leaves update.
UpdateUncaught(fs, ioerr) ==
    /\ pc \in {"ready", "called"}
    /\ LET destination == _get_local_dest(self, self.absolute)
           path_type == _get_path_type(self.absolute, fs)
           handler == get_handler(path_type.type)
           e == handler_copy(handler, ioerr)
       IN  /\ call' = [op |-> "update", src |-> self.absolute,
                       dest |-> destination, inspected |-> path_type.of,
                       path_type |-> path_type.type,
                       handler |-> handler,
                       argBackup |-> FALSE, argOverwrite |-> FALSE,
                       backup |-> FALSE, overwrite |-> FALSE,
                       raised |-> e, printed |-> <<>>]
           /\ exc' = e
           /\ pc' = IF e = "none" THEN "called" ELSE "aborted"
    /\ UNCHANGED <<decl, self, built, initCalls, processed>>

\* entry.update()
Update(fs, ioerr) ==
    /\ pc \in {"ready", "called"}
    /\ LET destination == _get_local_dest(self, self.absolute)
           path_type == _get_path_type(self.absolute, fs)
           handler == get_handler(path_type.type)
           e == handler_copy(handler, ioerr)
       IN  call' = [op |-> "update", src |-> self.absolute,
                    dest |-> destination, inspected |-> path_type.of,
                    path_type |-> path_type.type,
                    handler |-> handler,
                    argBackup |-> FALSE, argOverwrite |-> FALSE,
                    backup |-> FALSE, overwrite |-> FALSE,
                    raised |-> e,
                    printed |-> IF e = "none" THEN <<>>
                                ELSE <<"Skipping", self.path, e>>]
    /\ pc' = "called"
    /\ UNCHANGED <<decl, self, built, initCalls, processed, exc>>

\* bootstrap that keeps the mirror source it computed in self.path.
BootstrapRebinds(backup, overwrite, fs, ioerr) ==
    /\ pc \in {"ready", "called"}
    /\ LET src == _get_local_src(self, self.path)
           path_type == _get_path_type(src, fs)
           handler == get_handler(path_type.type)
           e == handler_copy(handler, ioerr)
       IN  /\ call' = [op |-> "bootstrap", src |-> src,
                       dest |-> self.absolute, inspected |-> path_type.of,
                       path_type |-> path_type.type,
                       handler |-> handler,
                       argBackup |-> backup, argOverwrite |-> overwrite,
                       backup |-> backup, overwrite |-> overwrite,
                       raised |-> e,
                       printed |-> IF e = "none" THEN <<>>
                                   ELSE <<"Skipping", self.path, e>>]
           /\ self' = [self EXCEPT !.path = src]
    /\ pc' = "called"
    /\ UNCHANGED <<decl, built, initCalls, processed, exc>>

\* entry.bootstrap(backup, overwrite)
Bootstrap(backup, overwrite, fs, ioerr) ==
    /\ pc \in {"ready", "called"}
    /\ LET src == _get_local_src(self, self.path)
           path_type == _get_path_type(src, fs)
           handler == get_handler(path_type.type)
           e == handler_copy(handler, ioerr)
       IN  call' = [op |-> "bootstrap", src |-> src,
                    dest |-> self.absolute, inspected |-> path_type.of,
                    path_type |-> path_type.type,
                    handler |-> handler,
                    argBackup |-> backup, argOverwrite |-> overwrite,
                    backup |-> backup, overwrite |-> overwrite,
                    raised |-> e,
                    printed |-> IF e = "none" THEN <<>>
                                ELSE <<"Skipping", self.path, e>>]
    /\ pc' = "called"
    /\ UNCHANGED <<decl, self, built, initCalls, processed, exc>>

\* The caller is done with the entry, copied or skipped, and goes on to the
\* next declared path.
EndEntry ==
    /\ pc = "called"
    /\ processed' = processed + 1
    /\ pc' = "idle"
    /\ decl' = <<>>
    /\ self' = NoEntry
    /\ built' = NoEntry
    /\ initCalls' = {}
    /\ call' = NoCall
    /\ UNCHANGED exc

Next ==
    \/ \E d \in DeclaredPaths, known \in BOOLEAN : Construct(d, known)
    \/ \E fs \in FsAnswers, ioerr \in BOOLEAN : Update(fs, ioerr)
    \/ \E backup \in BOOLEAN, overwrite \in BOOLEAN,
          fs \in FsAnswers, ioerr \in BOOLEAN :
           Bootstrap(backup, overwrite, fs, ioerr)
    \/ EndEntry

Spec == Init /\ [][Next]_vars

------------------------------------------------------------------------------
(* the properties *)

Constructed == pc \in {"ready", "called"}

\* The category read off the first character of the declared string itself.
LiteralCategory(d) ==
    IF d # <<>> /\ d[1] = "/" THEN "global"
    ELSE IF d # <<>> /\ d[1] = "~" THEN "local"
    ELSE "custom"

\* The directory name of a category's sub-root.
SubRoot(category) == <<category>>

\* Path(base) / p for a p without root.
joinpath(base, p) == Path(join(<<base>> \o p.parts))

\* The first component of the declared path is the home marker itself.
FirstIsHome(d) ==
    LET p == Path(d)
    IN  p.root = <<>> /\ p.parts # <<>> /\ Head(p.parts) = <<"~">>

\* s without a leading home marker ("~" followed by a separator, or alone).
StripLeadingHome(s) ==
    IF startswith(s, <<"~", "/">>) THEN SubSeq(s, 3, Len(s))
    ELSE IF s = <<"~">> THEN <<>>
    ELSE s

\* C1: the category of an entry is the one decided on the literal declared
\* string: "/" first gives global, "~" first gives local, anything else
\* (such as "./~") gives custom.
C1_CategoryFromLiteralPrefix ==
    Constructed => self.category = LiteralCategory(decl)

\* C2: for every local entry the mirror path update writes to is the mirror
\* path bootstrap reads from, and bootstrap writes where update reads.
C2_MirrorRoundTrip ==
    (Constructed /\ self.category = "local") =>
        _get_local_dest(self, self.absolute) = _get_local_src(self, self.path)

\* C3: no failure while an entry is processed (construction included) leaves
\* the entry's processing: the caller is never stopped by an exception.
C3_FailureIsolated == exc = "none" /\ pc # "aborted"

\* C4: for a declared absolute path /p an entry is constructed and the
\* destination of update is dotfiles/global/p.
C4_GlobalDestination ==
    (pc # "idle" /\ startswith(decl, <<"/">>) /\ Path(decl).parts # <<>>) =>
        /\ Constructed
        /\ self.category = "global"
        /\ _get_local_dest(self, self.absolute) =
               [root |-> <<>>,
                parts |-> <<local_base, SubRoot("global")>> \o Path(decl).parts]

\* C5: the constructor computes the home-relative path only for an entry
\* whose category is local, so no entry of another category fails on it.
C5_RelativeOnlyForLocal ==
    "_get_relative" \in initCalls =>
        _get_path_category(Path(decl)) = "local"

\* C6 (as claimed): every declared path that classifies as local, "~x"
\* included, has a home-relative path, and home joined with it is the
\* absolute path.
C6_LocalRelativeDefined ==
    (pc # "idle" /\ _get_path_category(Path(decl)) = "local") =>
        /\ Constructed
        /\ joinpath(HomeDir, self.relative) = self.absolute

\* C6 (amended): a declared path whose first component is exactly "~" gives
\* an entry of category local whose home-relative path joined to the home
\* directory is its absolute path; any other declared path that classifies
\* as local ("~x", "~name/x") gives no entry: the constructor raises.
C6_HomeEntryRelative ==
    /\ (pc # "idle" /\ FirstIsHome(decl)) =>
           /\ Constructed
           /\ self.category = "local"
           /\ self.relative.root = <<>>
           /\ joinpath(HomeDir, self.relative) = self.absolute
    /\ (pc # "idle" /\ ~FirstIsHome(decl)
          /\ _get_path_category(Path(decl)) = "local") =>
           /\ pc = "aborted"
           /\ exc \in {"RuntimeError", "ValueError"}

\* An entry for "~/x/y" on which a call was made: its absolute path is the
\* home directory followed by its home-relative path.
C6_Witness ==
    /\ pc = "called"
    /\ FirstIsHome(decl)
    /\ Len(self.relative.parts) = 2
    /\ self.absolute.parts = <<<<"h">>>> \o self.relative.parts

\* C7: update inspects the absolute live path and bootstrap the mirror-side
\* path; a source that is neither a directory nor a file is of type unknown,
\* gets a handler, and the call ends in a printed skip notice: no exception
\* leaves update or bootstrap and the failure is not silent.
C7_UnknownSourceReported ==
    /\ call.op # "none" => call.inspected = call.src
    /\ call.op = "update" => call.src = self.absolute
    /\ call.op = "bootstrap" => call.src = _get_local_src(self, self.path)
    /\ call.path_type = "unknown" =>
           /\ call.handler = "UnknownHandler"
           /\ call.raised # "none"
           /\ call.printed = <<"Skipping", self.path, call.raised>>
           /\ exc = "none"
           /\ pc = "called"

\* An update whose source was neither a directory nor a file ended in a
\* skip notice.
C7_Witness ==
    /\ pc = "called"
    /\ call.op = "update"
    /\ call.path_type = "unknown"
    /\ call.printed # <<>>

\* C8: the source of bootstrap is the category sub-root joined with the
\* declared path less its leading home marker only, and no component of it
\* is the home marker "~".
C8_SourceStripsLeadingMarker ==
    Constructed =>
        LET src == _get_local_src(self, self.path)
        IN  /\ src = Path(self.local_base \o <<"/">> \o SubRoot(self.category)
                          \o <<"/">> \o StripLeadingHome(str(self.path)))
            /\ \A i \in 1..Len(src.parts) : src.parts[i] # <<"~">>

\* Mirror path m lies strictly below the sub-root of category.
StrictlyBelow(m, category) ==
    /\ m.root = <<>>
    /\ Len(m.parts) > 2
    /\ SubSeq(m.parts, 1, 2) = <<local_base, SubRoot(category)>>

\* C9: the entry's mirror paths lie strictly below its category sub-root,
\* and any other entry with a different normalized declared path has a
\* different update destination and a different bootstrap source.
C9_MirrorCollisionFree ==
    Constructed =>
        /\ StrictlyBelow(_get_local_dest(self, self.absolute), self.category)
        /\ StrictlyBelow(_get_local_src(self, self.path), self.category)
        /\ \A d2 \in DeclaredPaths, k2 \in BOOLEAN :
               LET other == __init__(d2, k2)
               IN  (other.exc = "none" /\ other.val.path # self.path) =>
                       /\ _get_local_dest(other.val, other.val.absolute) #
                              _get_local_dest(self, self.absolute)
                       /\ _get_local_src(other.val, other.val.path) #
                              _get_local_src(self, self.path)

\* C10: whatever update and bootstrap calls were made on an entry, and
\* however they ended, the entry's fields are those construction gave it;
\* each call used the source and destination computed from those fields and
\* handed the handler the backup and overwrite flags it was given.
C10_EntryUnchanged ==
    Constructed =>
        /\ self = built
        /\ call.op = "update" =>
               /\ call.src = built.absolute
               /\ call.dest = _get_local_dest(built, built.absolute)
        /\ call.op = "bootstrap" =>
               /\ call.src = _get_local_src(built, built.path)
               /\ call.dest = built.absolute
               /\ call.backup = call.argBackup
               /\ call.overwrite = call.argOverwrite

\* A bootstrap with backup set and overwrite unset whose handler raised.
C10_Witness ==
    /\ pc = "called"
    /\ call.op = "bootstrap"
    /\ call.raised = "OSError"
    /\ call.argBackup /\ ~call.argOverwrite
    /\ self.path # NoPath

====
